---- MODULE Spec2Model ----
(***************************************************************************)
(* Solvix API (src/main.py): guidance-plan generator, session manager and  *)
(* message log over a document store.                                      *)
(*                                                                         *)
(* Conventions.  A Python value of type Optional[T] is a sequence of       *)
(* length at most one: None is << >> and a present value v is <<v>>.       *)
(* A description is a sequence of characters, so that str.split() is       *)
(* computed and not assumed.  An ObjectId is the lower-case form of its    *)
(* hex string; id tokens sent by a client are arbitrary strings.           *)
(***************************************************************************)
EXTENDS Integers, Sequences, FiniteSets, TLC

VARIABLES
    problem,    \* collection "problem":  ObjectId -> document
    session,    \* collection "session":  ObjectId -> document
    message,    \* collection "message":  documents in ascending _id order
    nextOid,    \* number of ObjectIds the store has handed out
    created,    \* history: session id -> source fields resolved by create_session
    trail,      \* history: session id -> the step mutations that succeeded on it
    last,       \* the last request and its response
    before,     \* history: the collections as the last request found them
    nops,       \* number of requests served
    gen,        \* input and output of a stand-alone generator call
    threads,    \* worker thread -> the request it is serving, and where it is in it
    started,    \* number of requests the workers have taken
    answers,    \* history: the responses the workers have sent, as
                \* <<op, args, code, out>>
    lastw,      \* history: session id -> the last write made to the session
    late        \* history: an update_step was taken after a generate_steps on
                \* its session had been answered

vars == <<problem, session, message, nextOid, created, trail, last, before, nops, gen,
          threads, started, answers, lastw, late>>

----------------------------------------------------------------------------
(* Bounds *)

MaxOps == 4         \* requests per behaviour
MaxOid == 3         \* ObjectIds the store can hand out
MaxWords == 62      \* longest description (in words) given to the generator
MaxThreads == 2     \* worker threads that serve requests at the same time
MaxReqs == 4        \* requests the workers take per behaviour

----------------------------------------------------------------------------
(* Python values *)

None == << >>
Some(v) == <<v>>

\* the characters str.split() treats as separators
Whitespace == {" ", "\t", "\n"}

\* a description of n one-letter words separated by single blanks
Plain(n) == [i \in 1..(IF n = 0 THEN 0 ELSE 2 * n - 1) |->
                IF i % 2 = 0 THEN " " ELSE "a"]

\* a description of n one-letter words, each after a newline and a tab, with a
\* trailing blank
Padded(n) == [i \in 1..(3 * n + 1) |->
                IF i % 3 = 0 THEN "a"
                ELSE IF i % 3 = 1 THEN (IF i = 3 * n + 1 THEN " " ELSE "\n")
                ELSE "\t"]

----------------------------------------------------------------------------
(* Guidance plan generator *)

base == <<
    "Clarify the goal and constraints. Summarize the problem in your own words.",
    "Break the problem into smaller sub-parts. Identify inputs, outputs, and edge cases.",
    "Draft a step-by-step approach or outline to solve each sub-part.",
    "Execute the plan: implement or compute the solution incrementally.",
    "Test with examples, review results, and refine any weak points." >>

SummaryText == "Create a brief summary of the solution and next steps."

\* mutant of cat_tips: no fallback, an unknown category gets no tip text
cat_tips_nofallback(category) ==
    CASE category = "coding"  -> "Consider time/space complexity and write unit tests."
      [] category = "math"    -> "Write definitions, known theorems, and try a simple case first."
      [] category = "writing" -> "Define audience, tone, and structure (intro, body, conclusion)."
      [] category = "general" -> "Stay focused on the main objective and time-box explorations."
      [] OTHER                -> ""

\* cat_tips.get(category, cat_tips["general"])
cat_tips(category) ==
    CASE category = "coding"  -> "Consider time/space complexity and write unit tests."
      [] category = "math"    -> "Write definitions, known theorems, and try a simple case first."
      [] category = "writing" -> "Define audience, tone, and structure (intro, body, conclusion)."
      [] OTHER                -> "Stay focused on the main objective and time-box explorations."

\* mutant of split_len: len(description.split(" ")), which splits at every
\* single blank and at no other whitespace
split_len_blank(description) ==
    1 + Cardinality({i \in 1..Len(description) : description[i] = " "})

\* len(description.split()): the number of maximal runs of non-whitespace
split_len(description) ==
    Cardinality({i \in 1..Len(description) :
        /\ description[i] \notin Whitespace
        /\ (i = 1 \/ description[i - 1] \in Whitespace)})

WordLimit == 60

GuidanceStep(index, text, status, note) ==
    [index |-> index, text |-> text, status |-> status, note |-> note]

generate_guidance_steps(description, category) ==
    LET tip == cat_tips(category)
        steps == [i \in 1..Len(base) |->
                    GuidanceStep(i, base[i], "pending",
                                 IF i \in {2, 4} THEN Some(tip) ELSE None)]
    IN  IF split_len(description) > WordLimit
        THEN Append(steps, GuidanceStep(Len(steps) + 1, SummaryText, "pending", None))
        ELSE steps

\* s.pop("index", None) on every dumped step
pop_index(steps) ==
    [i \in 1..Len(steps) |->
        [k \in (DOMAIN steps[i]) \ {"index"} |-> steps[i][k]]]

----------------------------------------------------------------------------
(* Ids *)

\* str(ObjectId): the n-th id the store hands out, in lower-case hex
Oid(n) == <<"a", n>>

\* bson.ObjectId.is_valid on a string: hex digits of either case
is_valid(token) == Len(token) = 2 /\ token[1] \in {"a", "A"}

\* ObjectId(token) of a valid token: the id, whose string form is lower-case
ObjectId(token) == <<"a", token[2]>>

EmptyToken == << >>

\* the well-formed lower-case ids clients send: the first two the store hands
\* out (each names a problem, a session, a message or, before it is handed
\* out, nothing)
ClientOids == {Oid(1), Oid(2)}

\* the id tokens a client sends: those ids, the first also in upper-case hex,
\* a malformed token and the empty string
Tokens == ClientOids \cup {<<"A", 1>>, <<"z", 1>>, EmptyToken}

----------------------------------------------------------------------------
(* Request inputs *)

Opt(S) == {None} \cup {Some(v) : v \in S}

\* POST /api/problems bodies (the request model accepts an empty title)
CreateProblem ==
    { [title |-> "Two Sum", description |-> Plain(2),
       category |-> "coding", difficulty |-> "hard"],
      [title |-> "Essay", description |-> Plain(61),
       category |-> "poetry", difficulty |-> "easy"],
      [title |-> "", description |-> Plain(2),
       category |-> "math", difficulty |-> "medium"] }

\* POST /api/sessions bodies: by problem id (with and without fields of its
\* own), and ad hoc with every combination of a missing or empty field
CreateSession ==
    [problem_id : {Some(Oid(1))}, title : {None}, description : {None},
     category : {"general"}, difficulty : {"medium"}, auto_generate_steps : BOOLEAN]
    \cup
    [problem_id : Opt(Tokens \ {Oid(1)}) \ {None}, title : {None}, description : {None},
     category : {"general"}, difficulty : {"medium"}, auto_generate_steps : {TRUE}]
    \cup
    [problem_id : {Some(Oid(1))}, title : {Some("Mine")}, description : {Some(Plain(61))},
     category : {"writing"}, difficulty : {"medium"}, auto_generate_steps : {TRUE}]
    \cup
    [problem_id : {None}, title : Opt({"", "Mine"}), description : Opt({Plain(0), Plain(2)}),
     category : {"general"}, difficulty : {"medium"}, auto_generate_steps : {TRUE}]
    \cup
    [problem_id : {None}, title : {Some("Mine")}, description : {Some(Plain(61))},
     category : {"writing"}, difficulty : {"easy"}, auto_generate_steps : BOOLEAN]
    \cup
    [problem_id : {Some(EmptyToken)}, title : {Some("Mine")}, description : {Some(Plain(2))},
     category : {"poetry"}, difficulty : {"easy"}, auto_generate_steps : {TRUE}]

\* PATCH bodies: either field, both, or neither
UpdateStep ==
    { [status |-> Some("done"), note |-> None],
      [status |-> None, note |-> Some("my note")],
      [status |-> Some("skipped"), note |-> Some("my note")],
      [status |-> None, note |-> None] }

\* PATCH requests on the lower-case ids: every body on step 2, one body on
\* the indexes -1, 0, 6 and 7; and one request each on an upper-case and on a
\* malformed id
UpdateRequests ==
    (ClientOids \X {2} \X UpdateStep)
    \cup (ClientOids \X {-1, 0, 6, 7} \X {[status |-> Some("done"), note |-> None]})
    \cup ({<<"A", 1>>, <<"z", 1>>} \X {1} \X {[status |-> Some("done"), note |-> None]})

\* id tokens in a path; a path parameter is never the empty string
PathTokens == Tokens \ {EmptyToken}

CreateMessage == [role : {"user"}, content : {"hello"}]

----------------------------------------------------------------------------
(* Helpers *)

\* mutant of truthy: a test against None only
truthy_not_none(opt, empty) == opt /= None

\* Python truthiness of an Optional[str]: None and the empty string are false
truthy(opt, empty) == opt /= None /\ opt[1] /= empty

\* to_str_id: the document with its _id given as the string "id"
to_str_id(oid, doc) == [id |-> oid] @@ doc

\* one response
Response(op, args, code, out) == [op |-> op, args |-> args, code |-> code, out |-> out]

NoOut == << >>

Threads == 1..MaxThreads

\* a worker that serves no request
Idle == [pc |-> "idle", op |-> "", args |-> << >>, doc |-> << >>, nw |-> 0,
         crossed |-> FALSE]

Serve(resp) ==
    /\ nops < MaxOps
    /\ nops' = nops + 1
    /\ last' = resp
    /\ before' = [problem |-> problem, session |-> session, message |-> message]
    /\ UNCHANGED <<threads, started, answers, lastw, late>>

----------------------------------------------------------------------------
(* Routes: problems *)

\* POST /api/problems
create_problem(payload) ==
    LET oid == Oid(nextOid + 1)
        doc == [title |-> payload.title, description |-> payload.description,
                category |-> payload.category, difficulty |-> payload.difficulty]
    IN  /\ nextOid < MaxOid
        /\ nextOid' = nextOid + 1
        /\ problem' = [o \in DOMAIN problem \cup {oid} |->
                          IF o = oid THEN doc ELSE problem[o]]
        /\ Serve(Response("create_problem", <<payload>>, 200, to_str_id(oid, doc)))
        /\ UNCHANGED <<session, message, created, trail, gen>>

\* a later edit of a stored problem, made in the store and not by any route
mutate_problem(oid, doc) ==
    /\ oid \in DOMAIN problem
    /\ doc /= problem[oid]
    /\ problem' = [problem EXCEPT ![oid] = doc]
    /\ Serve(Response("mutate_problem", <<oid>>, 200, NoOut))
    /\ UNCHANGED <<session, message, nextOid, created, trail, gen>>

----------------------------------------------------------------------------
(* Routes: sessions *)

\* the source fields create_session resolves: the problem's when problem_id
\* is given (and found), the payload's otherwise
resolve_source(payload) ==
    IF truthy(payload.problem_id, EmptyToken)
    THEN LET prob == problem[ObjectId(payload.problem_id[1])]
         IN  [title |-> Some(prob.title), description |-> Some(prob.description),
              category |-> prob.category, difficulty |-> prob.difficulty]
    ELSE [title |-> payload.title, description |-> payload.description,
          category |-> payload.category, difficulty |-> payload.difficulty]

\* Session(...).model_dump() as create_session builds it
session_doc(payload, src) ==
    [problem_id |-> IF truthy(payload.problem_id, EmptyToken)
                    THEN payload.problem_id ELSE None,
     problem_title |-> src.title[1],
     problem_description |-> src.description[1],
     category |-> src.category,
     difficulty |-> src.difficulty,
     steps |-> << >>,
     current_step |-> 1]

\* mutant of stored_steps: the dumped steps stored with their index field
stored_steps_with_index(description, category) ==
    generate_guidance_steps(description, category)

\* the steps create_session and generate_steps store
stored_steps(description, category) ==
    pop_index(generate_guidance_steps(description, category))

\* POST /api/sessions
create_session(payload) ==
    LET given == truthy(payload.problem_id, EmptyToken)
        args == <<payload>>
    IN  IF given /\ ~is_valid(payload.problem_id[1])
        THEN \* ObjectId(...) raises InvalidId, which no handler catches
             /\ Serve(Response("create_session", args, 500, NoOut))
             /\ UNCHANGED <<problem, session, message, nextOid, created, trail, gen>>
        ELSE IF given /\ ObjectId(payload.problem_id[1]) \notin DOMAIN problem
        THEN /\ Serve(Response("create_session", args, 404, NoOut))
             /\ UNCHANGED <<problem, session, message, nextOid, created, trail, gen>>
        ELSE LET src == resolve_source(payload)
             IN  IF ~truthy(src.title, "") \/ ~truthy(src.description, << >>)
                 THEN /\ Serve(Response("create_session", args, 400, NoOut))
                      /\ UNCHANGED <<problem, session, message, nextOid, created, trail, gen>>
                 ELSE LET sid == Oid(nextOid + 1)
                          inserted == session_doc(payload, src)
                          doc == IF payload.auto_generate_steps
                                 THEN [inserted EXCEPT !.steps =
                                         stored_steps(src.description[1], src.category)]
                                 ELSE inserted
                      IN  /\ nextOid < MaxOid
                          /\ nextOid' = nextOid + 1
                          /\ session' = [o \in DOMAIN session \cup {sid} |->
                                            IF o = sid THEN doc ELSE session[o]]
                          /\ created' = [o \in DOMAIN created \cup {sid} |->
                                            IF o = sid THEN src ELSE created[o]]
                          /\ trail' = [o \in DOMAIN trail \cup {sid} |->
                                          IF o = sid THEN << >> ELSE trail[o]]
                          /\ Serve(Response("create_session", args, 200,
                                            to_str_id(sid, doc)))
                          /\ UNCHANGED <<problem, message, gen>>

\* mutant of indexed: enumerate(steps) without start=1
indexed_from_zero(steps) ==
    [i \in 1..Len(steps) |-> [index |-> i - 1] @@ steps[i]]

\* st["index"] = i for i, st in enumerate(steps, start=1): a stored index, if
\* any, is overwritten
indexed(steps) ==
    [i \in 1..Len(steps) |-> [index |-> i] @@ steps[i]]

\* the composed view get_session returns
composed(session_id, doc) ==
    LET msgs == SelectSeq(message, LAMBDA m : m.session_id = session_id)
        steps == indexed(doc.steps)
    IN  [messages |-> [i \in 1..Len(msgs) |->
                          [id |-> msgs[i]._id, session_id |-> msgs[i].session_id,
                           role |-> msgs[i].role, content |-> msgs[i].content]]]
        @@ to_str_id(ObjectId(session_id), [doc EXCEPT !.steps = steps])

\* GET /api/sessions/{session_id}
get_session(session_id) ==
    LET args == <<session_id>>
    IN  /\ IF ~is_valid(session_id)
           THEN Serve(Response("get_session", args, 500, NoOut))
           ELSE IF ObjectId(session_id) \notin DOMAIN session
           THEN Serve(Response("get_session", args, 404, NoOut))
           ELSE Serve(Response("get_session", args, 200,
                               composed(session_id, session[ObjectId(session_id)])))
        /\ UNCHANGED <<problem, session, message, nextOid, created, trail, gen>>

\* mutant of regenerated_steps: the new list keeps the status of the steps
\* it replaces
regenerated_steps_merged(doc) ==
    LET fresh == stored_steps(doc.problem_description, doc.category)
    IN  [i \in 1..Len(fresh) |->
            IF i <= Len(doc.steps)
            THEN [fresh[i] EXCEPT !.status = doc.steps[i].status]
            ELSE fresh[i]]

\* mutant of regenerated_steps: the plan is made from the referenced problem
\* as it is now, when the session has one
regenerated_steps_live(doc) ==
    IF doc.problem_id /= None /\ ObjectId(doc.problem_id[1]) \in DOMAIN problem
    THEN LET prob == problem[ObjectId(doc.problem_id[1])]
         IN  stored_steps(prob.description, prob.category)
    ELSE stored_steps(doc.problem_description, doc.category)

\* the steps generate_steps stores: made from the session's cached fields
regenerated_steps(doc) ==
    stored_steps(doc.problem_description, doc.category)

\* POST /api/sessions/{session_id}/steps/generate
generate_steps(session_id) ==
    LET args == <<session_id>>
    IN  IF ~is_valid(session_id)
        THEN /\ Serve(Response("generate_steps", args, 500, NoOut))
             /\ UNCHANGED <<problem, session, message, nextOid, created, trail, gen>>
        ELSE IF ObjectId(session_id) \notin DOMAIN session
        THEN /\ Serve(Response("generate_steps", args, 404, NoOut))
             /\ UNCHANGED <<problem, session, message, nextOid, created, trail, gen>>
        ELSE LET sid == ObjectId(session_id)
                 doc == session[sid]
                 steps == regenerated_steps(doc)
             IN  /\ session' = [session EXCEPT ![sid] =
                                  [doc EXCEPT !.steps = steps, !.current_step = 1]]
                 /\ trail' = [trail EXCEPT ![sid] = Append(@, <<"generate_steps">>)]
                 /\ Serve(Response("generate_steps", args, 200, [ok |-> TRUE]))
                 /\ UNCHANGED <<problem, message, nextOid, created, gen>>

\* mutant of invalid_index: the lower bound checked against 0
invalid_index_from_zero(step_index, steps) ==
    step_index < 0 \/ step_index > Len(steps)

\* step_index < 1 or step_index > len(steps)
invalid_index(step_index, steps) ==
    step_index < 1 \/ step_index > Len(steps)

\* Python list indexing steps[idx]: the position (from 1) of the element, a
\* negative idx counting from the end; outside 1..Len it is an IndexError
list_position(steps, idx) ==
    IF idx < 0 THEN Len(steps) + idx + 1 ELSE idx + 1

\* mutant of edited_steps: the edited step is appended to the list it was
\* read from
edited_steps_appended(steps, pos, payload) ==
    Append(steps, [steps[pos] EXCEPT !.status = IF payload.status /= None
                                                 THEN payload.status[1] ELSE @])

\* mutant of edited_steps: a status outside pending, in_progress, done is
\* not stored
edited_steps_enum_only(steps, pos, payload) ==
    LET st == steps[pos]
        st1 == IF payload.status /= None
                  /\ payload.status[1] \in {"pending", "in_progress", "done"}
               THEN [st EXCEPT !.status = payload.status[1]] ELSE st
        st2 == IF payload.note /= None
               THEN [st1 EXCEPT !.note = payload.note] ELSE st1
    IN  [steps EXCEPT ![pos] = st2]

\* mutant of edited_steps: a full replace, an absent field is cleared
edited_steps_replaced(steps, pos, payload) ==
    [steps EXCEPT ![pos] =
        [@ EXCEPT !.status = IF payload.status /= None THEN payload.status[1]
                             ELSE "pending",
                  !.note = payload.note]]

\* the step list update_step writes back: only the supplied fields of the
\* step at the position are set
edited_steps(steps, pos, payload) ==
    LET st == steps[pos]
        st1 == IF payload.status /= None
               THEN [st EXCEPT !.status = payload.status[1]] ELSE st
        st2 == IF payload.note /= None
               THEN [st1 EXCEPT !.note = payload.note] ELSE st1
    IN  [steps EXCEPT ![pos] = st2]

\* PATCH /api/sessions/{session_id}/steps/{step_index}
update_step(session_id, step_index, payload) ==
    LET args == <<session_id, step_index, payload>>
    IN  IF ~is_valid(session_id)
        THEN /\ Serve(Response("update_step", args, 500, NoOut))
             /\ UNCHANGED <<problem, session, message, nextOid, created, trail, gen>>
        ELSE IF ObjectId(session_id) \notin DOMAIN session
        THEN /\ Serve(Response("update_step", args, 404, NoOut))
             /\ UNCHANGED <<problem, session, message, nextOid, created, trail, gen>>
        ELSE LET sid == ObjectId(session_id)
                 steps == session[sid].steps
                 pos == list_position(steps, step_index - 1)
             IN  IF invalid_index(step_index, steps)
                 THEN /\ Serve(Response("update_step", args, 400, NoOut))
                      /\ UNCHANGED <<problem, session, message, nextOid, created, trail, gen>>
                 ELSE IF pos \notin 1..Len(steps)
                 THEN \* IndexError, which no handler catches
                      /\ Serve(Response("update_step", args, 500, NoOut))
                      /\ UNCHANGED <<problem, session, message, nextOid, created, trail, gen>>
                 ELSE /\ session' = [session EXCEPT ![sid].steps =
                                       edited_steps(steps, pos, payload)]
                      /\ trail' = [trail EXCEPT ![sid] =
                                      Append(@, <<"update_step", step_index, payload>>)]
                      /\ Serve(Response("update_step", args, 200, [ok |-> TRUE]))
                      /\ UNCHANGED <<problem, message, nextOid, created, gen>>

\* create_document(collection, model): one insert, the new id as a string
create_document(msg) ==
    Append(message, [_id |-> Oid(nextOid + 1)] @@ msg)

\* mutant of add_message: the message is inserted without looking the
\* session up
add_message_unchecked(session_id, payload) ==
    LET args == <<session_id, payload>>
        msg == [session_id |-> session_id, role |-> payload.role,
                content |-> payload.content]
    IN  /\ nextOid < MaxOid
        /\ message' = create_document(msg)
        /\ nextOid' = nextOid + 1
        /\ Serve(Response("add_message", args, 200, [id |-> Oid(nextOid + 1)]))
        /\ UNCHANGED <<problem, session, created, trail, gen>>

\* POST /api/sessions/{session_id}/messages
add_message(session_id, payload) ==
    LET args == <<session_id, payload>>
    IN  IF ~is_valid(session_id)
        THEN /\ Serve(Response("add_message", args, 500, NoOut))
             /\ UNCHANGED <<problem, session, message, nextOid, created, trail, gen>>
        ELSE IF ObjectId(session_id) \notin DOMAIN session
        THEN /\ Serve(Response("add_message", args, 404, NoOut))
             /\ UNCHANGED <<problem, session, message, nextOid, created, trail, gen>>
        ELSE LET msg == [session_id |-> session_id, role |-> payload.role,
                         content |-> payload.content]
             IN  /\ nextOid < MaxOid
                 /\ message' = create_document(msg)
                 /\ nextOid' = nextOid + 1
                 /\ Serve(Response("add_message", args, 200, [id |-> Oid(nextOid + 1)]))
                 /\ UNCHANGED <<problem, session, created, trail, gen>>

----------------------------------------------------------------------------
(* The service: requests served one at a time *)

NoGen == [description |-> << >>, category |-> "general", steps |-> << >>, called |-> FALSE]

Init ==
    /\ problem = << >>
    /\ session = << >>
    /\ message = << >>
    /\ nextOid = 0
    /\ created = << >>
    /\ trail = << >>
    /\ last = Response("start", << >>, 200, NoOut)
    /\ before = [problem |-> << >>, session |-> << >>, message |-> << >>]
    /\ nops = 0
    /\ gen = NoGen
    /\ threads = [t \in Threads |-> Idle]
    /\ started = 0
    /\ answers = {}
    /\ lastw = << >>
    /\ late = FALSE

Next ==
    \/ \E payload \in CreateProblem : create_problem(payload)
    \/ \E oid \in DOMAIN problem, doc \in CreateProblem : mutate_problem(oid, doc)
    \/ \E payload \in CreateSession : create_session(payload)
    \/ \E session_id \in PathTokens : get_session(session_id)
    \/ \E session_id \in PathTokens : generate_steps(session_id)
    \/ \E req \in UpdateRequests : update_step(req[1], req[2], req[3])
    \/ \E session_id \in PathTokens, payload \in CreateMessage :
          add_message(session_id, payload)

Spec == Init /\ [][Next]_vars

----------------------------------------------------------------------------
(* The service on one ad hoc session, with every kind of status value *)

\* status strings a client may send: the three of the schema's description
\* and one outside them
StatusValues == {"pending", "in_progress", "done", "archived"}

AdHocSession ==
    [problem_id |-> None, title |-> Some("Mine"), description |-> Some(Plain(2)),
     category |-> "general", difficulty |-> "medium", auto_generate_steps |-> TRUE]

StatusNext ==
    \/ create_session(AdHocSession)
    \/ \E status \in StatusValues, step_index \in {2, 5} :
          update_step(Oid(1), step_index, [status |-> Some(status), note |-> None])
    \/ get_session(Oid(1))

StatusSpec == Init /\ [][StatusNext]_vars

----------------------------------------------------------------------------
(* The service with requests served at the same time.  The routes are plain *)
(* functions, which the framework runs on worker threads; a route is split  *)
(* at its store operations, each of which is atomic on its own.             *)

\* what the routes leave alone when served by the workers
Apart == UNCHANGED <<problem, created, trail, last, before, nops, gen>>

\* an idle worker takes a request: workers are taken in order
Take(t) ==
    /\ threads[t].pc = "idle"
    /\ \A u \in Threads : u < t => threads[u].pc /= "idle"
    /\ started < MaxReqs
    /\ started' = started + 1

\* the worker sends the response and is idle again
Answer(t, op, args, code, out) ==
    /\ threads' = [threads EXCEPT ![t] = Idle]
    /\ answers' = answers \cup {<<op, args, code, out>>}

\* the worker goes on to its next store operation
Proceed(t, pc, op, args, doc) ==
    threads' = [threads EXCEPT ![t] = [pc |-> pc, op |-> op, args |-> args, doc |-> doc,
                                       nw |-> @.nw, crossed |-> @.crossed]]

\* the record of a write to a session's document
Written(op, args, copy, prev, crossed, auto) ==
    [op |-> op, args |-> args, copy |-> copy, prev |-> prev, crossed |-> crossed,
     auto |-> auto]

\* create_session up to db["session"].insert_one(doc)
create_session_insert(t, payload) ==
    LET given == truthy(payload.problem_id, EmptyToken)
        args == <<payload>>
    IN  /\ Take(t)
        /\ Apart
        /\ IF given /\ ~is_valid(payload.problem_id[1])
           THEN /\ Answer(t, "create_session", args, 500, NoOut)
                /\ UNCHANGED <<session, message, nextOid, lastw, late>>
           ELSE IF given /\ ObjectId(payload.problem_id[1]) \notin DOMAIN problem
           THEN /\ Answer(t, "create_session", args, 404, NoOut)
                /\ UNCHANGED <<session, message, nextOid, lastw, late>>
           ELSE LET src == resolve_source(payload)
                IN  IF ~truthy(src.title, "") \/ ~truthy(src.description, << >>)
                    THEN /\ Answer(t, "create_session", args, 400, NoOut)
                         /\ UNCHANGED <<session, message, nextOid, lastw, late>>
                    ELSE LET sid == Oid(nextOid + 1)
                             doc == session_doc(payload, src)
                         IN  /\ nextOid < MaxOid
                             /\ nextOid' = nextOid + 1
                             /\ session' = [o \in DOMAIN session \cup {sid} |->
                                               IF o = sid THEN doc ELSE session[o]]
                             /\ lastw' = [o \in DOMAIN lastw \cup {sid} |->
                                             IF o = sid
                                             THEN Written("insert_one", args, << >>, << >>,
                                                          FALSE, payload.auto_generate_steps)
                                             ELSE lastw[o]]
                             /\ threads' = [threads EXCEPT ![t] =
                                   [pc |-> IF payload.auto_generate_steps
                                           THEN "attach" ELSE "fetch",
                                    op |-> "create_session", args |-> args,
                                    doc |-> to_str_id(sid, doc), nw |-> 1,
                                    crossed |-> FALSE]]
                             /\ UNCHANGED <<message, answers, late>>

\* create_session: the steps are generated and set by update_one
create_session_attach(t) ==
    LET r == threads[t]
        sid == r.doc.id
        steps == stored_steps(r.doc.problem_description, r.doc.category)
    IN  /\ r.pc = "attach"
        /\ r.op = "create_session"
        /\ Apart
        /\ session' = [session EXCEPT ![sid].steps = steps]
        /\ lastw' = [lastw EXCEPT ![sid] =
                        Written("attach", r.args, << >>, session[sid].steps, FALSE, @.auto)]
        /\ threads' = [u \in Threads |->
                          IF u = t THEN [r EXCEPT !.pc = "fetch", !.nw = @ + 1]
                          ELSE threads[u]]
        /\ UNCHANGED <<message, nextOid, started, answers, late>>

\* create_session: the document is read back and returned
create_session_fetch(t) ==
    LET r == threads[t]
    IN  /\ r.pc = "fetch"
        /\ r.op = "create_session"
        /\ Apart
        /\ Answer(t, "create_session", r.args, 200, to_str_id(r.doc.id, session[r.doc.id]))
        /\ UNCHANGED <<session, message, nextOid, started, lastw, late>>

\* a route's find_one on the session, by the id in its path
find_session(t, op, args, pc) ==
    LET session_id == args[1]
    IN  IF ~is_valid(session_id)
        THEN Answer(t, op, args, 500, NoOut)
        ELSE IF ObjectId(session_id) \notin DOMAIN session
        THEN Answer(t, op, args, 404, NoOut)
        ELSE /\ Proceed(t, pc, op, args, session[ObjectId(session_id)])
             /\ UNCHANGED answers

\* get_session up to db["session"].find_one
get_session_find(t, session_id) ==
    /\ Take(t)
    /\ Apart
    /\ find_session(t, "get_session", <<session_id>>, "messages")
    /\ UNCHANGED <<session, message, nextOid, lastw, late>>

\* get_session: the messages are read and the view is returned
get_session_messages(t) ==
    LET r == threads[t]
    IN  /\ r.pc = "messages"
        /\ r.op = "get_session"
        /\ Apart
        /\ Answer(t, "get_session", r.args, 200, composed(r.args[1], r.doc))
        /\ UNCHANGED <<session, message, nextOid, started, lastw, late>>

\* generate_steps up to db["session"].find_one
generate_steps_find(t, session_id) ==
    /\ Take(t)
    /\ Apart
    /\ find_session(t, "generate_steps", <<session_id>>, "write")
    /\ UNCHANGED <<session, message, nextOid, lastw, late>>

\* mutant of generate_steps_write: the new plan also clears the session's
\* messages
generate_steps_write_clearing(t) ==
    LET r == threads[t]
        sid == ObjectId(r.args[1])
        steps == regenerated_steps(r.doc)
    IN  /\ r.pc = "write"
        /\ r.op = "generate_steps"
        /\ Apart
        /\ session' = [session EXCEPT ![sid] =
                         [@ EXCEPT !.steps = steps, !.current_step = 1]]
        /\ message' = SelectSeq(message, LAMBDA m : m.session_id /= r.args[1])
        /\ lastw' = [lastw EXCEPT ![sid] =
                        Written("generate_steps", r.args, r.doc.steps, session[sid].steps,
                                FALSE, @.auto)]
        /\ threads' = [threads EXCEPT ![t] = Idle]
        /\ answers' = answers \cup {<<"generate_steps", r.args, 200, [ok |-> TRUE]>>}
        /\ UNCHANGED <<nextOid, started, late>>

\* generate_steps: update_one sets steps and current_step
generate_steps_write(t) ==
    LET r == threads[t]
        sid == ObjectId(r.args[1])
        steps == regenerated_steps(r.doc)
    IN  /\ r.pc = "write"
        /\ r.op = "generate_steps"
        /\ Apart
        /\ session' = [session EXCEPT ![sid] =
                         [@ EXCEPT !.steps = steps, !.current_step = 1]]
        /\ lastw' = [lastw EXCEPT ![sid] =
                        Written("generate_steps", r.args, r.doc.steps, session[sid].steps,
                                FALSE, @.auto)]
        /\ threads' = [u \in Threads |->
                          IF u = t THEN Idle
                          ELSE IF threads[u].op = "update_step" /\ threads[u].pc = "write"
                                  /\ ObjectId(threads[u].args[1]) = sid
                          THEN [threads[u] EXCEPT !.crossed = TRUE]
                          ELSE threads[u]]
        /\ answers' = answers \cup {<<"generate_steps", r.args, 200, [ok |-> TRUE]>>}
        /\ UNCHANGED <<message, nextOid, started, late>>

\* update_step up to the range check on the steps it read
update_step_find(t, session_id, step_index, payload) ==
    LET args == <<session_id, step_index, payload>>
    IN  /\ Take(t)
        /\ Apart
        /\ late' = (late \/ <<"generate_steps", <<session_id>>, 200, [ok |-> TRUE]>> \in answers)
        /\ UNCHANGED <<session, message, nextOid, lastw>>
        /\ IF ~is_valid(session_id)
           THEN Answer(t, "update_step", args, 500, NoOut)
           ELSE IF ObjectId(session_id) \notin DOMAIN session
           THEN Answer(t, "update_step", args, 404, NoOut)
           ELSE LET steps == session[ObjectId(session_id)].steps
                IN  IF invalid_index(step_index, steps)
                    THEN Answer(t, "update_step", args, 400, NoOut)
                    ELSE IF list_position(steps, step_index - 1) \notin 1..Len(steps)
                    THEN Answer(t, "update_step", args, 500, NoOut)
                    ELSE /\ Proceed(t, "write", "update_step", args,
                                    session[ObjectId(session_id)])
                         /\ UNCHANGED answers

\* mutant of write_back: the edit is applied to the list as it is stored
write_back_in_place(stored, steps, pos, payload) ==
    edited_steps(stored, pos, payload)

\* mutant of write_back: nothing is written when the stored list is no longer
\* the one that was read
write_back_fenced(stored, steps, pos, payload) ==
    IF stored = steps THEN edited_steps(steps, pos, payload) ELSE stored

\* the list update_step's update_one sets: the list it read, edited, whatever
\* is stored by now
write_back(stored, steps, pos, payload) ==
    edited_steps(steps, pos, payload)

\* mutant of set_steps: current_step is moved to the first step that is not
\* done (past the end when all are)
set_steps_advancing(doc, steps) ==
    [doc EXCEPT !.steps = steps,
                !.current_step = IF \E i \in 1..Len(steps) : steps[i].status /= "done"
                                 THEN CHOOSE i \in 1..Len(steps) :
                                         /\ steps[i].status /= "done"
                                         /\ \A j \in 1..(i - 1) : steps[j].status = "done"
                                 ELSE Len(steps) + 1]

\* {"$set": {"steps": steps}} on a session document
set_steps(doc, steps) ==
    [doc EXCEPT !.steps = steps]

\* update_step: update_one sets the whole step list
update_step_write(t) ==
    LET r == threads[t]
        sid == ObjectId(r.args[1])
        steps == r.doc.steps
        pos == list_position(steps, r.args[2] - 1)
    IN  /\ r.pc = "write"
        /\ r.op = "update_step"
        /\ Apart
        /\ session' = [session EXCEPT ![sid] =
                         set_steps(@, write_back(@.steps, steps, pos, r.args[3]))]
        /\ lastw' = [lastw EXCEPT ![sid] =
                        Written("update_step", r.args, steps, session[sid].steps,
                                r.crossed, @.auto)]
        /\ Answer(t, "update_step", r.args, 200, [ok |-> TRUE])
        /\ UNCHANGED <<message, nextOid, started, late>>

\* add_message up to db["session"].find_one
add_message_find(t, session_id, payload) ==
    /\ Take(t)
    /\ Apart
    /\ find_session(t, "add_message", <<session_id, payload>>, "insert")
    /\ UNCHANGED <<session, message, nextOid, lastw, late>>

\* add_message: create_document inserts the message
add_message_insert(t) ==
    LET r == threads[t]
        msg == [session_id |-> r.args[1], role |-> r.args[2].role,
                content |-> r.args[2].content]
    IN  /\ r.pc = "insert"
        /\ r.op = "add_message"
        /\ Apart
        /\ nextOid < MaxOid
        /\ message' = create_document(msg)
        /\ nextOid' = nextOid + 1
        /\ Answer(t, "add_message", r.args, 200, [id |-> Oid(nextOid + 1)])
        /\ UNCHANGED <<session, started, lastw, late>>

\* the requests the workers are given
Drafts == {AdHocSession, [AdHocSession EXCEPT !.auto_generate_steps = FALSE]}

Edits ==
    {<<2, [status |-> Some("done"), note |-> None]>>,
     <<4, [status |-> Some("skipped"), note |-> Some("my note")]>>}

ConcNext ==
    \E t \in Threads :
        \/ \E payload \in Drafts : create_session_insert(t, payload)
        \/ create_session_attach(t)
        \/ create_session_fetch(t)
        \/ get_session_find(t, Oid(1))
        \/ get_session_messages(t)
        \/ generate_steps_find(t, Oid(1))
        \/ generate_steps_write(t)
        \/ \E e \in Edits : update_step_find(t, Oid(1), e[1], e[2])
        \/ update_step_write(t)
        \/ \E payload \in CreateMessage : add_message_find(t, Oid(1), payload)
        \/ add_message_insert(t)

ConcSpec == Init /\ [][ConcNext]_vars

\* the steps of a session on which every step but the second was marked
\* done, one update_step after the other
AlmostDone ==
    LET done == [status |-> Some("done"), note |-> None]
        s0 == stored_steps(AdHocSession.description[1], AdHocSession.category)
        s1 == edited_steps(s0, 1, done)
        s3 == edited_steps(s1, 3, done)
        s4 == edited_steps(s3, 4, done)
    IN  <<s4, edited_steps(s4, 5, done)>>

\* the service started over the store as an earlier run left it: one session,
\* created from AdHocSession, all of whose steps but the second are done
Resumed ==
    /\ problem = << >>
    /\ session = (Oid(1) :> [session_doc(AdHocSession, resolve_source(AdHocSession))
                               EXCEPT !.steps = AlmostDone[2]])
    /\ message = << >>
    /\ nextOid = 1
    /\ created = << >>
    /\ trail = << >>
    /\ last = Response("start", << >>, 200, NoOut)
    /\ before = [problem |-> << >>, session |-> << >>, message |-> << >>]
    /\ nops = 0
    /\ gen = NoGen
    /\ threads = [t \in Threads |-> Idle]
    /\ started = 0
    /\ answers = {}
    /\ lastw = (Oid(1) :> Written("update_step",
                                  <<Oid(1), 5, [status |-> Some("done"), note |-> None]>>,
                                  AlmostDone[1], AlmostDone[1], FALSE, TRUE))
    /\ late = FALSE

\* the workers on an empty store, or on the one an earlier run left
LongSpec == (Init \/ Resumed) /\ [][ConcNext]_vars

----------------------------------------------------------------------------
(* The generator on its own: one call on any description and category *)

GenDescriptions == {Plain(n) : n \in 0..MaxWords} \cup {Padded(n) : n \in 0..MaxWords}
GenCategories == {"coding", "math", "writing", "general", "poetry", "Coding", ""}

GenInit ==
    /\ problem = << >>
    /\ session = << >>
    /\ message = << >>
    /\ nextOid = 0
    /\ created = << >>
    /\ trail = << >>
    /\ last = Response("start", << >>, 200, NoOut)
    /\ before = [problem |-> << >>, session |-> << >>, message |-> << >>]
    /\ nops = 0
    /\ gen \in [description : GenDescriptions, category : GenCategories,
                steps : {<< >>}, called : {FALSE}]
    /\ threads = [t \in Threads |-> Idle]
    /\ started = 0
    /\ answers = {}
    /\ lastw = << >>
    /\ late = FALSE

Generate ==
    /\ ~gen.called
    /\ gen' = [gen EXCEPT !.steps = generate_guidance_steps(gen.description, gen.category),
                          !.called = TRUE]
    /\ UNCHANGED <<problem, session, message, nextOid, created, trail, last, before, nops,
                   threads, started, answers, lastw, late>>

GenNext == Generate

GenSpec == GenInit /\ [][GenNext]_vars

----------------------------------------------------------------------------
(* Properties of the generator, under GenSpec *)

\* the number of words of the description given to the generator, known from
\* how the description was built
WordsGiven == CHOOSE n \in 0..MaxWords : gen.description \in {Plain(n), Padded(n)}

\* C6: generate returns exactly 5 steps for a description of at most 60
\* words and exactly 6 for a longer one; the first five are the fixed base
\* instructions in order, and every step has status pending.
C6_StepCount ==
    gen.called =>
        /\ Len(gen.steps) = (IF WordsGiven <= 60 THEN 5 ELSE 6)
        /\ \A i \in 1..5 : gen.steps[i].text = base[i]
        /\ \A i \in 1..Len(gen.steps) : gen.steps[i].status = "pending"

\* C6 witness: the generator has run at the boundary, on 60 words with extra
\* whitespace around them
C6_Witness ==
    /\ gen.called
    /\ gen.description = Padded(60)
    /\ Len(gen.steps) = 5

\* the tip the rule table gives a category, unknown categories included
ExpectedTip ==
    IF gen.category = "coding" THEN "Consider time/space complexity and write unit tests."
    ELSE IF gen.category = "math"
         THEN "Write definitions, known theorems, and try a simple case first."
    ELSE IF gen.category = "writing"
         THEN "Define audience, tone, and structure (intro, body, conclusion)."
    ELSE "Stay focused on the main objective and time-box explorations."

\* C7: generate puts the category's tip (the general tip for every category
\* outside coding, math, writing) as the note of steps 2 and 4 and leaves the
\* note absent on every other step, the appended 6th included.
C7_Notes ==
    gen.called =>
        \A i \in 1..Len(gen.steps) :
            gen.steps[i].note = (IF i \in {2, 4} THEN Some(ExpectedTip) ELSE None)

\* C7 witness: the generator has run on an unknown category and a long
\* description, giving six steps
C7_Witness ==
    /\ gen.called
    /\ gen.category = "poetry"
    /\ Len(gen.steps) = 6
    /\ gen.steps[6].note = None

----------------------------------------------------------------------------
(* Properties of the session manager, under Spec *)

\* the generator-default list for a description and category, as it is
\* stored: text and note from the generator, status pending, no index field
GeneratorDefault(description, category) ==
    LET g == generate_guidance_steps(description, category)
    IN  [i \in 1..Len(g) |->
            [text |-> g[i].text, status |-> "pending", note |-> g[i].note]]

\* a request's problem_id names a problem: it is present and not empty
Given(payload) == payload.problem_id /= None /\ payload.problem_id /= Some(EmptyToken)

\* the last request was this operation, answered with this code
Answered(op, code) == last.op = op /\ last.code = code

\* the last request named, by a well-formed id, a session that was stored
OnStored(op) ==
    /\ last.op = op
    /\ is_valid(last.args[1])
    /\ ObjectId(last.args[1]) \in DOMAIN before.session

\* the last request named, by a well-formed id, a session that was not stored
OnAbsent(op) ==
    /\ last.op = op
    /\ is_valid(last.args[1])
    /\ ObjectId(last.args[1]) \notin DOMAIN before.session

\* C1: a successful create persists exactly one new session, with
\* current_step = 1 and cached title, description, category and difficulty
\* equal to the problem's (problem_id given) or to the supplied ones; with
\* autoGenerate its steps are the generator's for the cached description and
\* category, without index field and all pending, and without it none.
C1_Create ==
    Answered("create_session", 200) =>
        LET payload == last.args[1]
        IN  \E sid \in DOMAIN session :
              LET doc == session[sid]
              IN  /\ sid \notin DOMAIN before.session
                  /\ DOMAIN session = DOMAIN before.session \cup {sid}
                  /\ \A o \in DOMAIN before.session : session[o] = before.session[o]
                  /\ doc.current_step = 1
                  /\ IF Given(payload)
                     THEN LET prob == before.problem[ObjectId(payload.problem_id[1])]
                          IN  /\ doc.problem_title = prob.title
                              /\ doc.problem_description = prob.description
                              /\ doc.category = prob.category
                              /\ doc.difficulty = prob.difficulty
                     ELSE /\ doc.problem_title = payload.title[1]
                          /\ doc.problem_description = payload.description[1]
                          /\ doc.category = payload.category
                          /\ doc.difficulty = payload.difficulty
                  /\ IF payload.auto_generate_steps
                     THEN doc.steps = GeneratorDefault(doc.problem_description,
                                                       doc.category)
                     ELSE doc.steps = << >>

\* C1 witness: a session was just created from a stored problem of 61 words,
\* whose fields differ from the request's own, with a generated plan of 6
C1_Witness ==
    /\ Answered("create_session", 200)
    /\ last.args[1].problem_id = Some(Oid(1))
    /\ last.args[1].title = Some("Mine")
    /\ last.args[1].auto_generate_steps
    /\ session[last.out.id].problem_title = "Essay"
    /\ Len(session[last.out.id].steps) = 6

\* the last two step mutations of a session were both regenerations
RegeneratedTwice(sid) ==
    LET t == trail[sid]
    IN  /\ Len(t) >= 2
        /\ t[Len(t)][1] = "generate_steps"
        /\ t[Len(t) - 1][1] = "generate_steps"

\* C2: regenerateSteps on an existing session succeeds and leaves its steps
\* equal to the generator's for the cached description and category and
\* current_step = 1, whatever updateStep did before; a second
\* regenerateSteps in a row changes nothing.
C2_Regenerate ==
    OnStored("generate_steps") =>
        LET sid == ObjectId(last.args[1])
            old == before.session[sid]
        IN  /\ last.code = 200
            /\ DOMAIN session = DOMAIN before.session
            /\ session[sid].steps =
                  GeneratorDefault(old.problem_description, old.category)
            /\ session[sid].current_step = 1
            /\ RegeneratedTwice(sid) => session = before.session

\* C2 witness: a step was edited (status and note), then the plan was
\* regenerated twice in a row
C2_Witness ==
    /\ Answered("generate_steps", 200)
    /\ LET t == trail[ObjectId(last.args[1])]
       IN  /\ Len(t) = 3
           /\ t[1][1] = "update_step" /\ t[1][2] = 2
           /\ t[1][3] = [status |-> Some("skipped"), note |-> Some("my note")]
           /\ t[2][1] = "generate_steps" /\ t[3][1] = "generate_steps"

\* C3: updateStep on an existing session with an index outside
\* [1, len(steps)] fails with InvalidInput (400) and leaves the session
\* documents unchanged; on an absent session (a well-formed id that resolves
\* to none) it fails with NotFound (404) whatever the index.
C3_UpdateRejected ==
    /\ OnAbsent("update_step") => last.code = 404 /\ session = before.session
    /\ OnStored("update_step") =>
         LET step_index == last.args[2]
             steps == before.session[ObjectId(last.args[1])].steps
         IN  (step_index < 1 \/ step_index > Len(steps)) =>
                last.code = 400 /\ session = before.session

\* C3 witness: index 0 was rejected on a session whose plan has been edited
C3_Witness ==
    /\ Answered("update_step", 400)
    /\ last.args[2] = 0
    /\ Len(session[ObjectId(last.args[1])].steps) = 5
    /\ Len(trail[ObjectId(last.args[1])]) > 0

\* C4: a successful updateStep(sessionId, i, {status?, note?}) sets only the
\* supplied fields of step i: an absent field keeps its value, and the
\* step's text, every other step, the number of steps, current_step, the
\* cached problem fields, the other sessions, the problems and the messages
\* are unchanged.
C4_UpdateFrame ==
    Answered("update_step", 200) =>
        LET sid == ObjectId(last.args[1])
            i == last.args[2]
            payload == last.args[3]
            old == before.session[sid]
            new == session[sid]
        IN  /\ DOMAIN session = DOMAIN before.session
            /\ \A o \in DOMAIN session \ {sid} : session[o] = before.session[o]
            /\ [new EXCEPT !.steps = << >>] = [old EXCEPT !.steps = << >>]
            /\ Len(new.steps) = Len(old.steps)
            /\ \A j \in 1..Len(old.steps) : j /= i => new.steps[j] = old.steps[j]
            /\ DOMAIN new.steps[i] = DOMAIN old.steps[i]
            /\ new.steps[i].text = old.steps[i].text
            /\ new.steps[i].status = (IF payload.status = None THEN old.steps[i].status
                                      ELSE payload.status[1])
            /\ new.steps[i].note = (IF payload.note = None THEN old.steps[i].note
                                    ELSE payload.note)
            /\ problem = before.problem
            /\ message = before.message

\* C4 witness: only the status of step 2 was supplied, and the step still
\* carries the note the generator gave it
C4_Witness ==
    /\ Answered("update_step", 200)
    /\ last.args[2] = 2
    /\ last.args[3] = [status |-> Some("done"), note |-> None]
    /\ LET st == session[ObjectId(last.args[1])].steps[2]
       IN  st.status = "done" /\ st.note /= None /\ st.note /= Some("my note")

\* C5: read of an existing session answers with its steps in stored order,
\* each carrying index = position (from 1), after any creates, updates and
\* regenerations.
C5_ReadIndexes ==
    OnStored("get_session") =>
        LET stored == session[ObjectId(last.args[1])].steps
        IN  /\ last.code = 200
            /\ Len(last.out.steps) = Len(stored)
            /\ \A i \in 1..Len(stored) :
                  /\ "index" \in DOMAIN last.out.steps[i]
                  /\ last.out.steps[i].index = i
                  /\ \A k \in DOMAIN stored[i] : last.out.steps[i][k] = stored[i][k]

\* C5 witness: a plan of 6 steps was edited and regenerated, then read
C5_Witness ==
    /\ Answered("get_session", 200)
    /\ Len(last.out.steps) = 6
    /\ Len(trail[ObjectId(last.args[1])]) = 2
    /\ trail[ObjectId(last.args[1])][1][1] = "update_step"

\* the cached problem fields of a session document
Cached(doc) ==
    [title |-> doc.problem_title, description |-> doc.problem_description,
     category |-> doc.category, difficulty |-> doc.difficulty]

\* the source fields recorded when the session was created
AtCreation(sid) ==
    [title |-> created[sid].title[1], description |-> created[sid].description[1],
     category |-> created[sid].category, difficulty |-> created[sid].difficulty]

\* C8: a session created from a problem_id holds a copy of the problem's
\* title, description, category and difficulty as they were at creation: the
\* copy equals them in every later state, whatever requests were served and
\* however the problem changed, and regenerateSteps makes the plan from the
\* copy.
C8_Snapshot ==
    /\ \A sid \in DOMAIN session :
          session[sid].problem_id /= None =>
             /\ Cached(session[sid]) = AtCreation(sid)
             /\ sid \notin DOMAIN before.session =>
                  AtCreation(sid) =
                     before.problem[ObjectId(session[sid].problem_id[1])]
    /\ Answered("generate_steps", 200) =>
          LET sid == ObjectId(last.args[1])
          IN  session[sid].problem_id /= None =>
                session[sid].steps =
                   GeneratorDefault(AtCreation(sid).description, AtCreation(sid).category)

\* C8 witness: the plan of a session was regenerated after its problem had
\* changed from 2 words to 61; the session still holds the 2 words and a
\* plan of 5 steps
C8_Witness ==
    /\ Answered("generate_steps", 200)
    /\ LET doc == session[ObjectId(last.args[1])]
       IN  /\ doc.problem_id = Some(Oid(1))
           /\ doc.problem_description = Plain(2)
           /\ problem[Oid(1)].description = Plain(61)
           /\ Len(doc.steps) = 5

\* C9: a create that fails persists no session.  It fails with NotFound
\* (404) when problem_id is given, well-formed, and resolves to no problem,
\* and with InvalidInput (400) when no problem_id is given and title or
\* description is missing or empty.
C9_CreateRejected ==
    last.op = "create_session" =>
        LET payload == last.args[1]
        IN  /\ last.code /= 200 => session = before.session
            /\ (/\ Given(payload)
                /\ is_valid(payload.problem_id[1])
                /\ ObjectId(payload.problem_id[1]) \notin DOMAIN before.problem) =>
                 last.code = 404
            /\ (/\ payload.problem_id = None
                /\ (\/ payload.title \in {None, Some("")}
                    \/ payload.description \in {None, Some(<< >>)})) =>
                 last.code = 400

\* C9 witness: with a session already stored, a create with a title and an
\* empty description was refused
C9_Witness ==
    /\ Answered("create_session", 400)
    /\ last.args[1].problem_id = None
    /\ last.args[1].title = Some("Mine")
    /\ last.args[1].description = Some(<< >>)
    /\ DOMAIN session /= {}

\* C10: addMessage with a well-formed session id that resolves to no session
\* fails with NotFound (404) and leaves the message log unchanged.
C10_MessageRejected ==
    OnAbsent("add_message") => last.code = 404 /\ message = before.message

\* C10 witness: with one message in the log, a message for an id that names
\* no session was refused
C10_Witness ==
    /\ Answered("add_message", 404)
    /\ ObjectId(last.args[1]) \notin DOMAIN session
    /\ Len(message) = 1


\* the id token of the last request is malformed: the path parameter of the
\* session routes, the problem_id of a create
MalformedId ==
    \/ /\ last.op \in {"get_session", "generate_steps", "update_step", "add_message"}
       /\ ~is_valid(last.args[1])
    \/ /\ last.op = "create_session"
       /\ last.args[1].problem_id /= None
       /\ ~is_valid(last.args[1].problem_id[1])

\* C12: every operation that takes a session id or problem id rejects a
\* malformed id token with an InvalidInput error (400) and leaves the store
\* unchanged.
C12_MalformedRejected ==
    MalformedId =>
        /\ last.code = 400
        /\ problem = before.problem
        /\ session = before.session
        /\ message = before.message

\* the messages added to a session by the addMessage calls that succeeded, in
\* the order of their insertion, as a read presents them
MessagesOf(sid) ==
    LET msgs == SelectSeq(message, LAMBDA m : is_valid(m.session_id)
                                              /\ ObjectId(m.session_id) = sid)
    IN  [i \in 1..Len(msgs) |->
            [id |-> msgs[i]._id, session_id |-> msgs[i].session_id,
             role |-> msgs[i].role, content |-> msgs[i].content]]

\* C13: the message log is only ever extended at its end, and read of a
\* session returns exactly the messages added to that session by successful
\* addMessage calls, in insertion order, and none of another session.
C13_Transcript ==
    /\ Len(before.message) <= Len(message)
    /\ \A i \in 1..Len(before.message) : message[i] = before.message[i]
    /\ Answered("get_session", 200) =>
          last.out.messages = MessagesOf(ObjectId(last.args[1]))

\* C19: every stored step list has length 0, 5 or 6 and carries, position by
\* position, the generator's texts for the session's cached description and
\* category; a successful updateStep keeps length and texts, and only create
\* (with autoGenerate) and regenerateSteps set the length of a list.
C19_PlanShape ==
    /\ \A sid \in DOMAIN session :
          LET steps == session[sid].steps
              plan == GeneratorDefault(session[sid].problem_description,
                                       session[sid].category)
          IN  /\ Len(steps) \in {0, 5, 6}
              /\ Len(steps) \in {0, Len(plan)}
              /\ \A i \in 1..Len(steps) : steps[i].text = plan[i].text
    /\ \A sid \in DOMAIN before.session :
          Len(session[sid].steps) /= Len(before.session[sid].steps) =>
             last.op = "generate_steps"
    /\ Answered("update_step", 200) =>
          LET new == session[ObjectId(last.args[1])].steps
              old == before.session[ObjectId(last.args[1])].steps
          IN  /\ Len(new) = Len(old)
              /\ \A i \in 1..Len(old) : new[i].text = old[i].text

\* C19 witness: a step of a plan of 6 was edited; a session without plan is
\* stored beside it
C19_Witness ==
    /\ Answered("update_step", 200)
    /\ Len(session[ObjectId(last.args[1])].steps) = 6
    /\ \E sid \in DOMAIN session : Len(session[sid].steps) = 0

----------------------------------------------------------------------------
(* Properties of status updates, under StatusSpec *)

\* C18: updateStep on a valid index accepts any status string, whatever the
\* step's current status, and stores it; a read that follows returns exactly
\* the status that was supplied.
C18_AnyStatus ==
    /\ OnStored("update_step") =>
          LET sid == ObjectId(last.args[1])
              i == last.args[2]
              payload == last.args[3]
          IN  (1 <= i /\ i <= Len(before.session[sid].steps)) =>
                 /\ last.code = 200
                 /\ payload.status /= None =>
                       session[sid].steps[i].status = payload.status[1]
    /\ Answered("get_session", 200) =>
          LET t == trail[ObjectId(last.args[1])]
          IN  (Len(t) > 0 /\ t[Len(t)][1] = "update_step"
                 /\ t[Len(t)][3].status /= None) =>
                 last.out.steps[t[Len(t)][2]].status = t[Len(t)][3].status[1]

\* C18 witness: step 2 went from pending straight to done and from done to a
\* status outside the three, and the read that followed returned that status
C18_Witness ==
    /\ Answered("get_session", 200)
    /\ LET t == trail[ObjectId(last.args[1])]
       IN  /\ Len(t) = 2
           /\ t[1][2] = 2 /\ t[1][3].status = Some("done")
           /\ t[2][2] = 2 /\ t[2][3].status = Some("archived")
    /\ last.out.steps[2].status = "archived"

----------------------------------------------------------------------------
(* Properties of requests served at the same time, under ConcSpec *)

AllIdle == \A t \in Threads : threads[t].pc = "idle"

Ok(op) == {a \in answers : a[1] = op /\ a[3] = 200}

\* C11: every operation makes at most one write to the store, and a session
\* created with auto_generate_steps set is never stored, and never returned
\* by a read, with an empty step list.
C11_SingleWrite ==
    /\ \A t \in Threads : threads[t].nw <= 1
    /\ \A sid \in DOMAIN session : lastw[sid].auto => session[sid].steps /= << >>
    /\ \A a \in Ok("get_session") : lastw[a[4].id].auto => a[4].steps /= << >>

\* C14: update_step writes the whole list back as it read it: whatever is
\* stored when it writes, every step other than the one it edits is stored
\* as the request read it, so an edit written in between is lost.
C14_LastWriteWins ==
    \A sid \in DOMAIN lastw :
        lastw[sid].op = "update_step" =>
            LET w == lastw[sid]
                pos == list_position(w.copy, w.args[2] - 1)
            IN  /\ Len(session[sid].steps) = Len(w.copy)
                /\ \A i \in 1..Len(w.copy) :
                      i /= pos => session[sid].steps[i] = w.copy[i]

\* C14 witness: two update_step requests on different steps of one session
\* were both answered 200, the first one's edit was in the store when the
\* second wrote, and it is not in the store now
C14_Witness ==
    /\ AllIdle
    /\ Ok("generate_steps") = {}
    /\ \E a, b \in Ok("update_step") :
          LET sid == ObjectId(b[2][1])
              j == a[2][2]
          IN  /\ a[2][1] = b[2][1]
              /\ j /= b[2][2]
              /\ lastw[sid].op = "update_step"
              /\ lastw[sid].args = b[2]
              /\ lastw[sid].prev[j].status = a[2][3].status[1]
              /\ session[sid].steps[j].status = "pending"

\* C15: an update_step that read the list before a generate_steps wrote and
\* writes after it stores the list it read, with its own edit: the
\* regenerated list is overwritten.
C15_Unfenced ==
    \A sid \in DOMAIN lastw :
        (lastw[sid].op = "update_step" /\ lastw[sid].crossed) =>
            LET w == lastw[sid]
            IN  session[sid].steps =
                   edited_steps(w.copy, list_position(w.copy, w.args[2] - 1), w.args[3])

\* C15 witness: generate_steps was answered 200, no update_step was taken
\* after that and no request is being served, yet the stored list holds the
\* status set before the regeneration and the edit of the update_step that
\* crossed it
C15_Witness ==
    /\ AllIdle
    /\ ~late
    /\ Ok("generate_steps") /= {}
    /\ lastw[Oid(1)].op = "update_step"
    /\ lastw[Oid(1)].crossed
    /\ session[Oid(1)].steps[2].status = "done"
    /\ session[Oid(1)].steps[4].status = "skipped"
    /\ session[Oid(1)].steps /=
          stored_steps(session[Oid(1)].problem_description, session[Oid(1)].category)

\* the route of the worker that makes a store operation in this step
Acting(t) ==
    IF threads[t].pc /= "idle" THEN threads[t].op ELSE threads'[t].op

\* the store operations of add_message leave every session document as it is,
\* those of update_step and generate_steps leave the messages as they are
DisjointStep ==
    \A t \in Threads :
        (threads'[t].pc /= threads[t].pc) =>
            /\ Acting(t) = "add_message" => session' = session
            /\ Acting(t) \in {"update_step", "generate_steps"} => message' = message

\* one session was created and then one add_message and one step mutation on
\* it were served, in whatever interleaving: the store is as either serial
\* order leaves it
SerialOutcome ==
    (/\ started = 3
     /\ AllIdle
     /\ Ok("create_session") /= {}
     /\ Ok("add_message") /= {}
     /\ Ok("update_step") \cup Ok("generate_steps") /= {}) =>
        LET plan == stored_steps(session[Oid(1)].problem_description,
                                 session[Oid(1)].category)
            m == CHOOSE a \in Ok("add_message") : TRUE
        IN  /\ message = <<[_id |-> Oid(2), session_id |-> m[2][1],
                            role |-> m[2][2].role, content |-> m[2][2].content]>>
            /\ \A a \in Ok("generate_steps") : session[Oid(1)].steps = plan
            /\ \A a \in Ok("update_step") :
                  session[Oid(1)].steps = edited_steps(plan, a[2][2], a[2][3])

\* C16: add_message changes no session document and update_step and
\* generate_steps change no message, and one add_message interleaved with one
\* step mutation on the same session leaves the store as the serial orders do.
C16_Disjoint == [][DisjointStep]_vars /\ []SerialOutcome

\* C16 witness: one session was created, and an add_message and an
\* update_step on it are being served at the same time: both have found the
\* session, the message is not inserted and the steps are not written yet
C16_Witness ==
    /\ started = 3
    /\ Ok("create_session") /= {}
    /\ message = << >>
    /\ \E t, u \in Threads :
          /\ threads[t].op = "add_message" /\ threads[t].pc = "insert"
          /\ threads[u].op = "update_step" /\ threads[u].pc = "write"

----------------------------------------------------------------------------
(* Properties of requests served at the same time, under LongSpec *)

\* C17: every stored session has current_step = 1, whatever requests were
\* served and however they interleaved, also when its step list is empty and
\* when all its steps are done.
C17_NeverAdvanced ==
    \A sid \in DOMAIN session : session[sid].current_step = 1

\* C17 witness: a session all of whose steps are done after an update_step,
\* next to a session created without steps
C17_Witness ==
    /\ AllIdle
    /\ Ok("update_step") /= {}
    /\ \E sid \in DOMAIN session :
          /\ Len(session[sid].steps) = 5
          /\ \A i \in 1..5 : session[sid].steps[i].status = "done"
          /\ session[sid].current_step = 1
    /\ \E sid \in DOMAIN session :
          /\ ~lastw[sid].auto
          /\ session[sid].steps = << >>
          /\ session[sid].current_step = 1

====
